---- MODULE Spec2Model ----
(***************************************************************************)
(* State-machine model of the wundergroundpws data coordinators:           *)
(*   MultiStationUpdateCoordinator  (multi_station_coordinator.py)         *)
(*   WundergroundPWSUpdateCoordinator (coordinator.py)                     *)
(* and of the config-entry setup in __init__.py that drives their first    *)
(* refresh.  Both coordinators derive from Home Assistant's                *)
(* DataUpdateCoordinator: a refresh awaits _async_update_data(), stores    *)
(* the value it returns in coordinator.data and sets last_update_success   *)
(* to True, unless _async_update_data raised, in which case data is left   *)
(* alone and last_update_success becomes False.                            *)
(*                                                                         *)
(* Python's None is the empty sequence, a present value x is <<x>>.        *)
(***************************************************************************)
EXTENDS Integers, Sequences, FiniteSets, TLC

\* ------------------------------------------------------------------ bounds
MaxStations == 2
MaxPriority == 2
MaxCycles == 2
MaxCoord == 1
MaxPeriod == 11
MaxIconCode == 2

\* ------------------------------------------------------- program constants
HTTP_OK == 200
ForecastDays == 5
ICON_NOT_AVAILABLE == 44

None == <<>>
Some(x) == <<x>>

\* Python truthiness of an optional number: None and 0 are falsy.
Falsy(v) == v = None \/ v = Some(0)

CoordValues == 0..MaxCoord
OptCoord == {None} \cup {Some(c) : c \in CoordValues}

\* ------------------------------------------------------------ configuration
\* StationConfig(pws_id, priority, name); pws_id k is the k-th configured station.
StationConfig(k, p) == [pws_id |-> k, priority |-> p]

Configs ==
  UNION { { [k \in 1..n |-> StationConfig(k, pr[k])] : pr \in [1..n -> 1..MaxPriority] }
          : n \in 1..MaxStations }

\* sorted(config.stations, key=lambda x: x.priority): Python's sort is stable.
RECURSIVE insert_unstable(_, _)
insert_unstable(sorted, x) ==
  IF sorted = <<>> THEN <<x>>
  ELSE IF Head(sorted).priority < x.priority
       THEN <<Head(sorted)>> \o insert_unstable(Tail(sorted), x)
       ELSE <<x>> \o sorted

RECURSIVE insert_stable(_, _)
insert_stable(sorted, x) ==
  IF sorted = <<>> THEN <<x>>
  ELSE IF Head(sorted).priority <= x.priority
       THEN <<Head(sorted)>> \o insert_stable(Tail(sorted), x)
       ELSE <<x>> \o sorted

RECURSIVE sorted_by_priority_unstable(_)
sorted_by_priority_unstable(s) ==
  IF s = <<>> THEN <<>>
  ELSE insert_unstable(sorted_by_priority_unstable(SubSeq(s, 1, Len(s) - 1)), s[Len(s)])

RECURSIVE sorted_by_priority(_)
sorted_by_priority(s) ==
  IF s = <<>> THEN <<>>
  ELSE insert_stable(sorted_by_priority(SubSeq(s, 1, Len(s) - 1)), s[Len(s)])

\* ---------------------------------------------------------------- responses
\* What the upstream answers to the Current-conditions request.
\*   timeout : the request did not answer within DEFAULT_TIMEOUT
\*   status  : HTTP status (500 stands for every status other than 200)
\*   body    : "invalid" (response.json() raises), "null" (json() is None), "dict"
\*   obs     : the observations key: "absent", "empty" (a falsy list) or "one"
\*   errors  : the errors key: "absent", "empty" or "some"
\*   lat/lon : observations[0]['lat'/'lon'], None when the key is missing
CurrentResponse(t, st, b, o, e, la, lo) ==
  [timeout |-> t, status |-> st, body |-> b, obs |-> o, errors |-> e, lat |-> la, lon |-> lo]

CurrentResponses ==
  { CurrentResponse(FALSE, HTTP_OK, "dict", "one", e, la, lo) :
      e \in {"absent", "empty"}, la \in OptCoord, lo \in OptCoord }
  \cup { CurrentResponse(TRUE, HTTP_OK, "dict", "one", "absent", Some(1), Some(1)),
         CurrentResponse(FALSE, 500, "dict", "one", "absent", Some(1), Some(1)),
         CurrentResponse(FALSE, 500, "invalid", "absent", "absent", None, None),
         CurrentResponse(FALSE, HTTP_OK, "invalid", "absent", "absent", None, None),
         CurrentResponse(FALSE, HTTP_OK, "null", "absent", "absent", None, None),
         CurrentResponse(FALSE, HTTP_OK, "dict", "absent", "absent", None, None),
         CurrentResponse(FALSE, HTTP_OK, "dict", "empty", "absent", None, None),
         CurrentResponse(FALSE, HTTP_OK, "dict", "one", "some", Some(1), Some(1)),
         CurrentResponse(FALSE, HTTP_OK, "dict", "absent", "some", None, None) }

\* What the upstream answers to the Forecast request.
ForecastResponse(t, st, b, e, d) ==
  [timeout |-> t, status |-> st, body |-> b, errors |-> e, daypart |-> d]

ForecastResponses ==
  { ForecastResponse(FALSE, HTTP_OK, "dict", e, d) :
      e \in {"absent", "empty"}, d \in {"absent", "empty", "one"} }
  \cup { ForecastResponse(TRUE, HTTP_OK, "dict", "absent", "one"),
         ForecastResponse(FALSE, 500, "dict", "absent", "one"),
         ForecastResponse(FALSE, HTTP_OK, "invalid", "absent", "absent"),
         ForecastResponse(FALSE, HTTP_OK, "null", "absent", "absent"),
         ForecastResponse(FALSE, HTTP_OK, "dict", "some", "one") }

\* A check that lets every payload pass.
check_errors_never(r) == "none"

\* _check_errors: raises ValueError when the errors key holds a non-empty list.
check_errors(r) == IF r.errors = "some" THEN "ValueError" ELSE "none"

\* -------------------------------------------------------------- one fetch
\* A Current-conditions part that does not look at the observations list.
multi_current_exception_no_observations_check(r) ==
  IF r.timeout THEN "TimeoutError"
  ELSE IF r.status /= HTTP_OK THEN "ValueError"
  ELSE IF r.body = "invalid" THEN "ClientError"
  ELSE IF r.body = "null" THEN "ValueError"
  ELSE check_errors(r)

\* The exception the Current-conditions part of
\* MultiStationUpdateCoordinator._fetch_station_data raises before the
\* coordinate-learn step, "none" when every check passes.
multi_current_exception(r) ==
  IF r.timeout THEN "TimeoutError"
  ELSE IF r.status /= HTTP_OK THEN "ValueError"
  ELSE IF r.body = "invalid" THEN "ClientError"
  ELSE IF r.body = "null" THEN "ValueError"
  ELSE IF r.obs /= "one" THEN "ValueError"
  ELSE check_errors(r)

\* The same for WundergroundPWSUpdateCoordinator.get_weather: no status check and
\* no observations check.
single_current_exception(r) ==
  IF r.timeout THEN "TimeoutError"
  ELSE IF r.body = "invalid" THEN "ClientError"
  ELSE IF r.body = "null" THEN "ValueError"
  ELSE check_errors(r)

\* result_current[FIELD_OBSERVATIONS][0][key]: the value, or the exception of the lookup.
observation_lookup(r, v) ==
  IF r.obs = "absent" THEN [exc |-> "KeyError", value |-> None]
  ELSE IF r.obs = "empty" THEN [exc |-> "IndexError", value |-> None]
  ELSE IF v = None THEN [exc |-> "KeyError", value |-> None]
  ELSE [exc |-> "none", value |-> v]

\* "if not self._longitude: self._longitude = ...; if not self._latitude: ...":
\* the coordinates after the step and the exception that ended it, if any.
learn_coordinates(r, la, lo) ==
  LET lonL == IF Falsy(lo) THEN observation_lookup(r, r.lon)
              ELSE [exc |-> "none", value |-> lo]
      latL == IF Falsy(la) THEN observation_lookup(r, r.lat)
              ELSE [exc |-> "none", value |-> la]
  IN  IF lonL.exc /= "none" THEN [exc |-> lonL.exc, latitude |-> la, longitude |-> lo]
      ELSE IF latL.exc /= "none"
           THEN [exc |-> latL.exc, latitude |-> la, longitude |-> lonL.value]
           ELSE [exc |-> "none", latitude |-> latL.value, longitude |-> lonL.value]

\* A Forecast part that treats an absent or empty daypart as a failure.
multi_forecast_exception_strict(r) ==
  IF r.timeout THEN "TimeoutError"
  ELSE IF r.status /= HTTP_OK THEN "ValueError"
  ELSE IF r.body = "invalid" THEN "ClientError"
  ELSE IF r.body = "null" THEN "ValueError"
  ELSE IF r.daypart /= "one" THEN "ValueError"
  ELSE check_errors(r)

\* The exception of the Forecast part of _fetch_station_data; an absent or empty
\* daypart is only logged.
multi_forecast_exception(r) ==
  IF r.timeout THEN "TimeoutError"
  ELSE IF r.status /= HTTP_OK THEN "ValueError"
  ELSE IF r.body = "invalid" THEN "ClientError"
  ELSE IF r.body = "null" THEN "ValueError"
  ELSE check_errors(r)

single_forecast_exception(r) ==
  IF r.timeout THEN "TimeoutError"
  ELSE IF r.body = "invalid" THEN "ClientError"
  ELSE IF r.body = "null" THEN "ValueError"
  ELSE check_errors(r)

\* A fetch whose exceptions reach the except clause of the loop in get_weather.
fetch_station_data_reraises(exc) == exc

\* "except Exception" in _fetch_station_data: every exception is caught there and
\* the fetch returns None; what is not caught escapes to get_weather.
fetch_station_data_escapes(exc) == "none"

\* "except ValueError" / "except (asyncio.TimeoutError, aiohttp.ClientError)" in
\* the single-station get_weather: anything else escapes to the caller.
single_escapes(exc) ==
  IF exc \in {"ValueError", "TimeoutError", "ClientError"} THEN "none" ELSE exc

\* {**result_current, **result_forecast}, identified by the station it was
\* fetched for and the refresh cycle that fetched it.
Document(pws_id, n) == [pws_id |-> pws_id, cycle |-> n]


\* ------------------------------------------------------------------- state
VARIABLES
  kind,                 \* "multi" or "single": which coordinator the entry sets up
  config,               \* config.stations, in configuration order
  stations,             \* self._stations
  station_data,         \* self._station_data: pws_id -> None | <<[data, last_update]>>
  active_station,       \* self._active_station: None | <<StationConfig>>
  data,                 \* coordinator.data: None | <<Document>>
  latitude,             \* self._latitude
  longitude,            \* self._longitude
  last_update_success,  \* coordinator.last_update_success
  setup,                \* the config entry: "first_refresh", "loaded", "not_ready",
                        \* "unloaded"
  pc,                   \* where the refresh coroutine is suspended: "idle", "current", "forecast"
  idx,                  \* position of the for loop of get_weather in self._stations
  successful_stations,  \* the local list of get_weather: <<station, document>> pairs
  cycle,                \* number of refresh cycles started
  fetched_ok,           \* history: pws_ids whose fetch returned a document in the
                        \* cycle in flight or, when idle, in the last finished one
  attempted,            \* history: pws_ids _fetch_station_data was called for in that cycle
  flow,                 \* the config flow in progress: its fields and its last result
  call,                 \* a call of an accessor or of one fetch, with its arguments
  result                \* what that call returned or raised

vars == <<kind, config, stations, station_data, active_station, data, latitude,
          longitude, last_update_success, setup, pc, idx, successful_stations,
          cycle, fetched_ok, attempted, flow, call, result>>

\* No accessor call is being followed while the refresh cycles run.
NoCall == [fn |-> "none"]
NotRun == [done |-> FALSE]

\* No config flow is in progress while a set-up coordinator runs.
NoFlow == [step |-> "none"]

PwsIds == 1..MaxStations
Station == stations[idx]

\* __init__ of either coordinator, as called from async_setup_entry.
Init ==
  /\ kind \in {"multi", "single"}
  /\ config \in Configs
  /\ kind = "single" => Len(config) = 1 /\ config[1].priority = 1
  /\ stations = sorted_by_priority(config)
  /\ station_data = [p \in PwsIds |-> None]
  /\ active_station = None
  /\ data = None
  /\ latitude \in OptCoord
  /\ longitude \in OptCoord
  /\ last_update_success = TRUE
  /\ setup = "first_refresh"
  /\ pc = "idle"
  /\ idx = 1
  /\ successful_stations = <<>>
  /\ cycle = 0
  /\ fetched_ok = {}
  /\ attempted = {}
  /\ flow = NoFlow
  /\ call = NoCall
  /\ result = NotRun

\* ------------------------------------------------- the end of get_weather
\* "selected_station, selected_data = successful_stations[0]"
select_station(successful) == successful[1]

\* A cache update that also stamps the entries of the stations that failed.
update_cache_touching_all(cache, successful, now) ==
  [p \in DOMAIN cache |->
     IF \E i \in DOMAIN successful : successful[i][1].pws_id = p
     THEN LET i == CHOOSE i \in DOMAIN successful : successful[i][1].pws_id = p
          IN  Some([data |-> successful[i][2], last_update |-> now])
     ELSE IF cache[p] /= None THEN Some([cache[p][1] EXCEPT !.last_update = now])
     ELSE None]

\* A cache update that stores the selected station alone.
update_cache_selected_only(cache, successful, now) ==
  IF successful = <<>> THEN cache
  ELSE [cache EXCEPT ![successful[1][1].pws_id] =
          Some([data |-> successful[1][2], last_update |-> now])]

\* "for station, data in successful_stations: self._station_data[...] = {...}"
RECURSIVE update_cache(_, _, _)
update_cache(cache, successful, now) ==
  IF successful = <<>> THEN cache
  ELSE update_cache(
         [cache EXCEPT ![Head(successful)[1].pws_id] =
            Some([data |-> Head(successful)[2], last_update |-> now])],
         Tail(successful), now)

\* self._hass.loop.time() at the end of a cycle: later cycles read later times.
loop_time == cycle

\* A get_weather that gives up as soon as one station of the group has failed.
get_weather_return_all_or_none(successful) ==
  IF Len(successful) < Len(stations) THEN None ELSE Some(successful[1][2])

\* What get_weather returns: None when no station succeeded.
get_weather_return(successful) ==
  IF successful = <<>> THEN None ELSE Some(select_station(successful)[2])

\* DataUpdateCoordinator: "self.data = await self._async_update_data()" and the
\* success flag; an exception leaves data as it is.
coordinator_data(escaped, ret, current) == IF escaped /= "none" THEN current ELSE ret
coordinator_success(escaped) == escaped = "none"

\* "if not coordinator.last_update_success: raise ConfigEntryNotReady", else the
\* coordinator is registered and the platforms are forwarded.
setup_after_refresh(now, success) ==
  IF now /= "first_refresh" THEN now
  ELSE IF ~success THEN "not_ready" ELSE "loaded"

\* A fallback that serves a failed station from its cache entry.
append_or_cached(successful, station, value) ==
  IF value /= None THEN Append(successful, <<station, value[1]>>)
  ELSE IF station_data[station.pws_id] /= None
       THEN Append(successful, <<station, station_data[station.pws_id][1].data>>)
       ELSE successful

\* "if station_data: successful_stations.append((station, station_data))"
append_if_data(successful, station, value) ==
  IF value /= None THEN Append(successful, <<station, value[1]>>) ELSE successful

\* "except Exception as err: ... self._station_data.pop(station.pws_id, None)" in
\* get_weather: runs only for an exception _fetch_station_data lets through.
pop_failed(cache, station, escaped) ==
  IF escaped /= "none" THEN [cache EXCEPT ![station.pws_id] = None] ELSE cache

\* A loop that stops at the first station that delivered a document.
loop_stops_at_first_success(successful) == idx < Len(stations) /\ successful = <<>>

\* "for station in self._stations": the loop goes on while stations are left,
\* whatever the fetches so far returned.
loop_continues(successful) == idx < Len(stations)

\* The rest of the for-loop body after _fetch_station_data returned `value` or
\* let `escaped` through, and, after the last station, lines 144-162 and the
\* return to the DataUpdateCoordinator.
AfterFetch(value, escaped, la, lo) ==
  LET successful == IF escaped = "none"
                    THEN append_if_data(successful_stations, Station, value)
                    ELSE successful_stations
      cache == pop_failed(station_data, Station, escaped)
  IN  /\ latitude' = la
      /\ longitude' = lo
      /\ fetched_ok' = IF value /= None /\ escaped = "none"
                       THEN fetched_ok \cup {Station.pws_id} ELSE fetched_ok
      /\ IF loop_continues(successful)
         THEN /\ idx' = idx + 1
              /\ pc' = "current"
              /\ successful_stations' = successful
              /\ station_data' = cache
              /\ attempted' = attempted \cup {stations[idx + 1].pws_id}
              /\ UNCHANGED <<active_station, data, last_update_success, setup>>
         ELSE LET ret == get_weather_return(successful)
              IN  /\ idx' = 1
                  /\ pc' = "idle"
                  /\ successful_stations' = <<>>
                  /\ active_station' = IF successful = <<>> THEN active_station
                                       ELSE Some(select_station(successful)[1])
                  /\ station_data' = update_cache(cache, successful, loop_time)
                  /\ data' = coordinator_data("none", ret, data)
                  /\ last_update_success' = coordinator_success("none")
                  /\ setup' = setup_after_refresh(setup, coordinator_success("none"))
                  /\ UNCHANGED attempted
      /\ UNCHANGED <<flow, kind, config, stations, cycle, call, result>>

\* The end of the single-station get_weather: `ret` is what it returns, `escaped`
\* the exception it lets through.
SingleFinish(ret, escaped, la, lo) ==
  /\ latitude' = la
  /\ longitude' = lo
  /\ pc' = "idle"
  /\ data' = coordinator_data(escaped, ret, data)
  /\ last_update_success' = coordinator_success(escaped)
  /\ setup' = setup_after_refresh(setup, coordinator_success(escaped))
  /\ fetched_ok' = IF ret /= None /\ escaped = "none" THEN {Station.pws_id} ELSE {}
  /\ UNCHANGED <<flow, kind, config, stations, cycle, idx, successful_stations,
                 station_data, active_station, attempted, call, result>>

\* A station_status that marks every station with a cache entry as active.
station_status_cached_is_active(station) ==
  [ priority |-> station.priority,
    active |-> station_data[station.pws_id] /= None,
    last_update |-> IF station_data[station.pws_id] /= None
                    THEN Some(station_data[station.pws_id][1].last_update) ELSE None,
    status |-> IF station_data[station.pws_id] /= None THEN "online" ELSE "offline" ]

\* The station_status property, for one station of self._stations.
station_status(station) ==
  [ priority |-> station.priority,
    active |-> IF active_station /= None
               THEN station.pws_id = active_station[1].pws_id ELSE FALSE,
    last_update |-> IF station_data[station.pws_id] /= None
                    THEN Some(station_data[station.pws_id][1].last_update) ELSE None,
    status |-> IF station_data[station.pws_id] /= None THEN "online" ELSE "offline" ]

\* ----------------------------------------------------------------- actions
\* A refresh starts: async_config_entry_first_refresh from the setup, or the
\* update-interval timer of a loaded entry.  get_weather runs up to its first
\* await, the Current-conditions request of the first station.
StartCycle ==
  /\ pc = "idle"
  /\ cycle < MaxCycles
  /\ setup \in {"first_refresh", "loaded"}
  /\ pc' = "current"
  /\ idx' = 1
  /\ successful_stations' = <<>>
  /\ cycle' = cycle + 1
  /\ fetched_ok' = {}
  /\ attempted' = {stations[1].pws_id}
  /\ UNCHANGED <<flow, kind, config, stations, station_data, active_station, data, latitude,
                 longitude, last_update_success, setup, call, result>>

\* _fetch_station_data resumes with the Current-conditions response r.
MultiCurrent ==
  /\ kind = "multi"
  /\ pc = "current"
  /\ \E r \in CurrentResponses :
       LET exc == multi_current_exception(r)
           learned == learn_coordinates(r, latitude, longitude)
       IN  IF exc /= "none"
           THEN AfterFetch(None, fetch_station_data_escapes(exc), latitude, longitude)
           ELSE IF learned.exc /= "none"
                THEN AfterFetch(None, fetch_station_data_escapes(learned.exc),
                                learned.latitude, learned.longitude)
                ELSE /\ latitude' = learned.latitude
                     /\ longitude' = learned.longitude
                     /\ pc' = "forecast"
                     /\ UNCHANGED <<flow, kind, config, stations, station_data, active_station,
                                    data, last_update_success, setup, idx,
                                    successful_stations, cycle, fetched_ok,
                                    attempted, call, result>>

\* A Forecast step that sends the Current-conditions request again, for the
\* same station, when the Forecast request failed.
MultiForecastRetrying ==
  /\ kind = "multi"
  /\ pc = "forecast"
  /\ \E r \in ForecastResponses :
       LET exc == multi_forecast_exception(r)
       IN  IF exc /= "none"
           THEN /\ pc' = "current"
                /\ UNCHANGED <<flow, kind, config, stations, station_data, active_station,
                               data, latitude, longitude, last_update_success, setup,
                               idx, successful_stations, cycle, fetched_ok,
                               attempted, call, result>>
           ELSE AfterFetch(Some(Document(Station.pws_id, cycle)), "none", latitude, longitude)

\* _fetch_station_data resumes with the Forecast response r.
MultiForecast ==
  /\ kind = "multi"
  /\ pc = "forecast"
  /\ \E r \in ForecastResponses :
       LET exc == multi_forecast_exception(r)
       IN  IF exc /= "none"
           THEN AfterFetch(None, fetch_station_data_escapes(exc), latitude, longitude)
           ELSE AfterFetch(Some(Document(Station.pws_id, cycle)), "none", latitude, longitude)

\* The single-station get_weather resumes with the Current-conditions response r.
SingleCurrent ==
  /\ kind = "single"
  /\ pc = "current"
  /\ \E r \in CurrentResponses :
       LET exc == single_current_exception(r)
           learned == learn_coordinates(r, latitude, longitude)
       IN  IF exc /= "none"
           THEN SingleFinish(None, single_escapes(exc), latitude, longitude)
           ELSE IF learned.exc /= "none"
                THEN SingleFinish(None, single_escapes(learned.exc),
                                  learned.latitude, learned.longitude)
                ELSE /\ latitude' = learned.latitude
                     /\ longitude' = learned.longitude
                     /\ pc' = "forecast"
                     /\ UNCHANGED <<flow, kind, config, stations, station_data, active_station,
                                    data, last_update_success, setup, idx,
                                    successful_stations, cycle, fetched_ok,
                                    attempted, call, result>>

\* The single-station get_weather resumes with the Forecast response r.
SingleForecast ==
  /\ kind = "single"
  /\ pc = "forecast"
  /\ \E r \in ForecastResponses :
       LET exc == single_forecast_exception(r)
       IN  IF exc /= "none"
           THEN SingleFinish(None, single_escapes(exc), latitude, longitude)
           ELSE SingleFinish(Some(Document(Station.pws_id, cycle)), "none",
                             latitude, longitude)

\* async_unload_entry of a loaded entry: when the platforms unload, the
\* coordinator is taken out of hass.data[DOMAIN].  It does not wait for a
\* refresh in flight, which goes on to its end.
AsyncUnloadEntry ==
  /\ setup = "loaded"
  /\ \E unload_ok \in BOOLEAN :
       setup' = IF unload_ok THEN "unloaded" ELSE setup
  /\ UNCHANGED <<flow, kind, config, stations, station_data, active_station, data, latitude,
                 longitude, last_update_success, pc, idx, successful_stations,
                 cycle, fetched_ok, attempted, call, result>>

Next ==
  \/ StartCycle
  \/ MultiCurrent
  \/ MultiForecast
  \/ SingleCurrent
  \/ SingleForecast
  \/ AsyncUnloadEntry

Spec == Init /\ [][Next]_vars

\* Every request is under "async with timeout(DEFAULT_TIMEOUT)": it answers or
\* times out, so the step that resumes the fetch is eventually taken.
Requests ==
  MultiCurrent \/ MultiForecast \/ SingleCurrent \/ SingleForecast

LiveSpec == Init /\ [][Next]_vars /\ WF_vars(Requests)

\* ================================================================ accessors
\* JSON as the accessors see it: a dict is a function from its keys, a list a
\* sequence, null is None and a number v is Some(v).  An entry of the document
\* is Missing when the key is not in the dict.
Missing == [key |-> FALSE, value |-> <<>>]
Entry(v) == [key |-> TRUE, value |-> v]

dict_get(d, k) == IF k \in DOMAIN d THEN d[k] ELSE None

Returned(v) == [done |-> TRUE, exc |-> "none", value |-> v]
Raised(e) == [done |-> TRUE, exc |-> e, value |-> None]

\* API_METRIC and API_IMPERIAL, the keys of the unit sub-records of an observation.
UnitSystems == {"metric", "imperial"}

\* Condition fields the calls ask for: two that the upstream delivers at the top
\* level of the observation and one it delivers inside the unit sub-records.
ConditionFields == {"humidity", "solarRadiation", "temp"}

\* The fields each get_condition reads from the observation itself.
multi_unit_less_fields ==
  {"humidity", "winddir", "solarRadiation", "uv", "stationID", "neighborhood",
   "obsTimeLocal", "obsTimeUtc", "softwareType", "country", "lon", "lat",
   "realtimeFrequency", "epoch", "qcStatus", "windDirectionCardinal"}
single_unit_less_fields == {"humidity", "winddir"}

\* The top-level fields of an observation; a value 1 marks a top-level value.
TopRecords ==
  { [f \in S |-> Some(1)] : S \in SUBSET ConditionFields }
  \cup { [f \in ConditionFields |-> None], [f \in {"humidity"} |-> Some(0)] }

\* A unit sub-record: the key missing, null, an empty dict, the unit-bearing
\* field alone, or every field; v marks the values of this sub-record.
SubRecords(v) ==
  { Missing, Entry(None), Entry(Some([f \in {} |-> Some(v)])),
    Entry(Some([f \in {"temp"} |-> Some(v)])),
    Entry(Some([f \in ConditionFields |-> Some(v)])) }

\* observations[0]: metric values are 2, imperial values are 3.
ObservationRecords ==
  { [top |-> t, metric |-> m, imperial |-> i] :
      t \in TopRecords, m \in SubRecords(2), i \in SubRecords(3) }

\* observation[unit_system] as a document entry.
unit_entry(observation, unit_system) ==
  IF unit_system = "metric" THEN observation.metric ELSE observation.imperial

\* Keys of the document and of daypart[0] that the modelled documents can carry.
DayKeys == {"temperatureMax", "validTimeUtc"}
PartKeys == {"temperature", "iconCode"}

\* The per-day arrays of a document that carries none of them.
NoDays == [f \in DayKeys |-> Missing]

\* The documents get_condition is called on: no document, one without the
\* observations key, one with an empty observations list, one per observation.
ConditionDocuments ==
  { None,
    Some([observations |-> Missing, days |-> NoDays, daypart |-> Missing]),
    Some([observations |-> Entry(<<>>), days |-> NoDays, daypart |-> Missing]) }
  \cup { Some([observations |-> Entry(<<o>>), days |-> NoDays, daypart |-> Missing]) :
           o \in ObservationRecords }

\* "not self.data": no document, or a dict without any key.
not_data(d) ==
  \/ d = None
  \/ /\ ~d[1].observations.key
     /\ \A f \in DOMAIN d[1].days : ~d[1].days[f].key
     /\ ~d[1].daypart.key

\* "x or 0"
or_zero(v) == IF Falsy(v) THEN Some(0) ELSE v

\* MultiStationUpdateCoordinator.get_condition
multi_get_condition(d, unit_system, field) ==
  IF not_data(d) \/ ~d[1].observations.key THEN Returned(None)
  ELSE IF d[1].observations.value = <<>> THEN Returned(None)
  ELSE LET observation == d[1].observations.value[1]
           sub == unit_entry(observation, unit_system)
           metric_data == IF sub.key THEN sub.value ELSE Some([f \in {} |-> None])
       IN  IF field \in multi_unit_less_fields
           THEN Returned(dict_get(observation.top, field))
           ELSE IF metric_data /= None /\ DOMAIN metric_data[1] /= {}
                   /\ field \in DOMAIN metric_data[1]
                THEN Returned(dict_get(metric_data[1], field))
                ELSE Returned(dict_get(observation.top, field))

\* WundergroundPWSUpdateCoordinator.get_condition
single_get_condition(d, unit_system, field) ==
  IF d = None THEN Raised("TypeError")
  ELSE IF ~d[1].observations.key THEN Raised("KeyError")
  ELSE IF d[1].observations.value = <<>> THEN Raised("IndexError")
  ELSE LET observation == d[1].observations.value[1]
           sub == unit_entry(observation, unit_system)
       IN  IF field \in single_unit_less_fields
           THEN IF field \in DOMAIN observation.top
                THEN Returned(or_zero(observation.top[field]))
                ELSE Raised("KeyError")
           ELSE IF ~sub.key THEN Raised("KeyError")
           ELSE IF sub.value = None THEN Raised("TypeError")
           ELSE IF field \in DOMAIN sub.value[1]
                THEN Returned(sub.value[1][field])
                ELSE Raised("KeyError")

\* coordinator.get_condition(field) on the coordinator the entry set up.
get_condition(coordinator, d, unit_system, field) ==
  IF coordinator = "multi" THEN multi_get_condition(d, unit_system, field)
  ELSE single_get_condition(d, unit_system, field)

\* ----------------------------------------------------------- get_forecast
\* The fields get_forecast reads from the per-day arrays of the document.
full_day_fields ==
  {"temperatureMax", "temperatureMin", "calendarDayTemperatureMax",
   "calendarDayTemperatureMin", "validTimeUtc"}

\* The fields the calls ask for.
ForecastFields == DayKeys \cup PartKeys

\* A list of n numbers: element k (counted from 0) holds base + k.
array(base, n) == [i \in 1..n |-> Some(base + i - 1)]

\* What a forecast key can hold: nothing, null, the full array or a short one.
ArrayEntries(base, n) ==
  { Missing, Entry(None), Entry(Some(array(base, n))), Entry(Some(array(base, n - 2))) }
ArrayOrMissing(base, n) == { Missing, Entry(Some(array(base, n))) }

DaysRecords ==
  { [f \in DayKeys |-> IF f = "temperatureMax" THEN a ELSE b] :
      a \in ArrayEntries(100, ForecastDays), b \in ArrayOrMissing(200, ForecastDays) }

DaypartRecords ==
  { [f \in PartKeys |-> IF f = "temperature" THEN a ELSE b] :
      a \in ArrayEntries(300, 2 * ForecastDays), b \in ArrayOrMissing(400, 2 * ForecastDays) }

\* The daypart key: missing, null, an empty list, or a list of one record.
DaypartEntries ==
  { Missing, Entry(None), Entry(Some(<<>>)) }
  \cup { Entry(Some(<<dp>>)) : dp \in DaypartRecords }

ForecastDocuments ==
  {None} \cup { Some([observations |-> o, days |-> ds, daypart |-> dp]) :
                  o \in {Missing, Entry(<<>>)}, ds \in DaysRecords, dp \in DaypartEntries }

Periods == (0 - MaxPeriod)..MaxPeriod

\* The day index get_forecast would use if it passed the period on unhalved.
day_index_unhalved(period) == period

\* int(period / 2): true division, then truncation towards zero.
day_index(period) ==
  IF period >= 0 THEN period \div 2 ELSE 0 - ((0 - period) \div 2)

\* list[i] in Python: a negative index counts from the end.
list_index(list, i) ==
  LET n == Len(list)
  IN  IF 0 <= i /\ i < n THEN Returned(list[i + 1])
      ELSE IF 0 - n <= i /\ i < 0 THEN Returned(list[n + i + 1])
      ELSE Raised("IndexError")

\* d[key][i] where d[key] is the entry e: a missing key, null, or a list.
entry_index(e, i) ==
  IF ~e.key THEN Raised("KeyError")
  ELSE IF e.value = None THEN Raised("TypeError")
  ELSE list_index(e.value[1], i)

dict_entry(d, k) == IF k \in DOMAIN d THEN d[k] ELSE Missing

\* The body of the try block of get_forecast.
get_forecast_try(d, field, period) ==
  IF not_data(d) THEN Returned(None)
  ELSE IF field \in full_day_fields
       THEN entry_index(dict_entry(d[1].days, field), day_index(period))
       ELSE LET first == entry_index(d[1].daypart, 0)
            IN  IF first.exc /= "none" THEN first
                ELSE entry_index(dict_entry(first.value, field), period)

\* BaseWundergroundPWSCoordinator.get_forecast
get_forecast(d, field, period) ==
  LET r == get_forecast_try(d, field, period)
  IN  IF r.exc \in {"IndexError", "TypeError", "KeyError"} THEN Returned(None) ELSE r

\* ---------------------------------------------------------------- one fetch
\* What one fetch leaves behind: the document it returns (None for a failed
\* fetch), the exception it lets through, the coordinates afterwards, and
\* whether it sent the Forecast request.
Fetched(value, escaped, la, lo, requested) ==
  [done |-> TRUE, exc |-> escaped, value |-> value, latitude |-> la, longitude |-> lo,
   forecast_requested |-> requested]

\* MultiStationUpdateCoordinator._fetch_station_data for the responses rc and rf,
\* entered with the coordinates la and lo; doc is the merged document.
multi_fetch(rc, rf, la, lo, doc) ==
  LET exc == multi_current_exception(rc)
      learned == learn_coordinates(rc, la, lo)
      fexc == multi_forecast_exception(rf)
  IN  IF exc /= "none" THEN Fetched(None, fetch_station_data_escapes(exc), la, lo, FALSE)
      ELSE IF learned.exc /= "none"
           THEN Fetched(None, fetch_station_data_escapes(learned.exc),
                        learned.latitude, learned.longitude, FALSE)
      ELSE IF fexc /= "none"
           THEN Fetched(None, fetch_station_data_escapes(fexc),
                        learned.latitude, learned.longitude, TRUE)
      ELSE Fetched(Some(doc), "none", learned.latitude, learned.longitude, TRUE)

\* WundergroundPWSUpdateCoordinator.get_weather for the same inputs.
single_fetch(rc, rf, la, lo, doc) ==
  LET exc == single_current_exception(rc)
      learned == learn_coordinates(rc, la, lo)
      fexc == single_forecast_exception(rf)
  IN  IF exc /= "none" THEN Fetched(None, single_escapes(exc), la, lo, FALSE)
      ELSE IF learned.exc /= "none"
           THEN Fetched(None, single_escapes(learned.exc),
                        learned.latitude, learned.longitude, FALSE)
      ELSE IF fexc /= "none"
           THEN Fetched(None, single_escapes(fexc), learned.latitude, learned.longitude,
                        TRUE)
      ELSE Fetched(Some(doc), "none", learned.latitude, learned.longitude, TRUE)

fetch(coordinator, rc, rf, la, lo, doc) ==
  IF coordinator = "multi" THEN multi_fetch(rc, rf, la, lo, doc)
  ELSE single_fetch(rc, rf, la, lo, doc)

\* A merge in which the Current-conditions payload wins a shared key.
merge_current_wins(result_current, result_forecast) ==
  [k \in DOMAIN result_current \cup DOMAIN result_forecast |->
     IF k \in DOMAIN result_current THEN result_current[k] ELSE result_forecast[k]]

\* {**result_current, **result_forecast}
merge_results(result_current, result_forecast) ==
  [k \in DOMAIN result_current \cup DOMAIN result_forecast |->
     IF k \in DOMAIN result_forecast THEN result_forecast[k] ELSE result_current[k]]

\* Top-level keys a payload can carry, and the payloads: every value of a
\* payload is the mark v, so that the origin of a merged value shows.
PayloadKeys == {"observations", "daypart", "errors"}
Payloads(v) == { [k \in S |-> Some(v)] : S \in SUBSET PayloadKeys }

\* ---------------------------------------------------------------- _build_url
\* A URL template is its endpoint and the names of its query parameters in
\* order; a URL is the endpoint and the parameters with their values.
RESOURCESHARED == <<"format", "apiKey", "units">>
RESOURCECURRENT == [endpoint |-> "v2/pws/observations/current", params |-> <<"stationId">>]

\* A Forecast template addressed by station.
RESOURCEFORECAST_by_station ==
  [endpoint |-> "v3/wx/forecast/daily/5day", params |-> <<"stationId">>]

RESOURCEFORECAST == [endpoint |-> "v3/wx/forecast/daily/5day", params |-> <<"geocode">>]

\* str.format: the value each placeholder is replaced by; format=json is literal.
format_value(name, station_id, c, la, lo) ==
  IF name = "stationId" THEN <<station_id>>
  ELSE IF name = "geocode" THEN <<la, lo>>
  ELSE IF name = "numericPrecision" THEN <<c.numeric_precision>>
  ELSE IF name = "language" THEN <<c.lang>>
  ELSE IF name = "apiKey" THEN <<c.api_key>>
  ELSE IF name = "units" THEN <<c.unit_system_api>>
  ELSE <<"json">>

url_format(baseurl, names, station_id, c, la, lo) ==
  [endpoint |-> baseurl.endpoint,
   params |-> [i \in 1..Len(names) |->
                 [name |-> names[i], value |-> format_value(names[i], station_id, c, la, lo)]]]

\* A builder that appends numericPrecision whatever the precision mode is.
build_url_always_precision(baseurl, station_id, c, la, lo) ==
  LET own == IF baseurl = RESOURCECURRENT THEN Append(baseurl.params, "numericPrecision")
             ELSE IF baseurl = RESOURCEFORECAST THEN Append(baseurl.params, "language")
             ELSE baseurl.params
  IN  url_format(baseurl, own \o RESOURCESHARED, station_id, c, la, lo)

\* _build_url(baseurl, station_id) of the multi-station coordinator; the
\* single-station one is the same with self._pws_id as the station id.
build_url(baseurl, station_id, c, la, lo) ==
  LET own == IF baseurl = RESOURCECURRENT
             THEN IF c.numeric_precision /= "none"
                  THEN Append(baseurl.params, "numericPrecision")
                  ELSE baseurl.params
             ELSE IF baseurl = RESOURCEFORECAST THEN Append(baseurl.params, "language")
             ELSE baseurl.params
  IN  url_format(baseurl, own \o RESOURCESHARED, station_id, c, la, lo)

\* The configuration values _build_url reads.
UrlConfigs ==
  { [numeric_precision |-> np, lang |-> l, api_key |-> k, unit_system_api |-> u] :
      np \in {"none", "decimal"}, l \in {"en-US", "hu-HU"}, k \in {"key1", "key2"},
      u \in {"m", "e"} }

\* ------------------------------------------------------ _iconcode_to_condition
\* icon_condition_map as a list of (condition, iconcodes) in dict order.  The
\* maps range over every assignment of icon sets over 0..MaxIconCode to one or
\* two conditions; the "not available" code is in none of them.
IconSets == SUBSET (0..MaxIconCode)
IconMaps ==
  { <<[condition |-> "sunny", iconcodes |-> a]>> : a \in IconSets }
  \cup { <<[condition |-> "sunny", iconcodes |-> a],
           [condition |-> "cloudy", iconcodes |-> b]>> : a \in IconSets, b \in IconSets }

\* The icon codes asked for: None, the mappable codes and the sentinel.
IconCodes == {None} \cup {Some(n) : n \in 0..MaxIconCode} \cup {Some(ICON_NOT_AVAILABLE)}

\* The positions of the map whose icon set holds the code.
icon_matches(map, n) == { i \in DOMAIN map : n \in map[i].iconcodes }

\* A lookup that answers the first condition of the map for an unmapped code.
iconcode_to_condition_default(map, icon_code) ==
  IF icon_code = None THEN Returned(None)
  ELSE LET hits == icon_matches(map, icon_code[1])
       IN  IF hits = {} THEN Returned(Some(map[1].condition))
           ELSE Returned(Some(map[CHOOSE i \in hits : \A j \in hits : i <= j].condition))

\* BaseWundergroundPWSCoordinator._iconcode_to_condition: the first condition,
\* in dict order, whose icon set holds the code.
iconcode_to_condition(map, icon_code) ==
  IF icon_code = None THEN Returned(None)
  ELSE LET hits == icon_matches(map, icon_code[1])
       IN  IF hits = {} THEN Returned(None)
           ELSE Returned(Some(map[CHOOSE i \in hits : \A j \in hits : i <= j].condition))

\* ------------------------------------------------- the entity's condition
\* The solar radiation above which the estimate is sunny, partly cloudy, cloudy.
SunnyAbove == 800
PartlyCloudyAbove == 400
CloudyAbove == 100

\* Solar-radiation readings: zero, and each threshold with the value above it.
SolarValues ==
  {Some(0)} \cup { Some(t + k) : t \in {CloudyAbove, PartlyCloudyAbove, SunnyAbove},
                                 k \in {0, 1} }

\* Observations as the upstream delivers them, solarRadiation at the top level
\* (absent, null or a reading) and temp in the unit sub-records, and
\* observations that carry a solarRadiation reading in the metric sub-record.
EntityObservations ==
  { [top |-> t, metric |-> m, imperial |-> Entry(Some([f \in {"temp"} |-> Some(3)]))] :
      t \in { [f \in {"solarRadiation"} |-> v] : v \in SolarValues \cup {None} }
              \cup { [f \in {"humidity"} |-> Some(1)] },
      m \in { Entry(Some([f \in {"temp"} |-> Some(2)])),
              Entry(Some([f \in {"solarRadiation", "temp"} |-> Some(SunnyAbove + 1)])) } }

\* The icon codes of the night period: none, a mappable one, the sentinel.
NightCodes == {None, Some(1), Some(ICON_NOT_AVAILABLE)}

\* daypart of the documents the entity reads: missing, an empty list, a record
\* without iconCode, or a record whose iconCode list starts with the codes of
\* period 0 and period 1.
EntityDayparts ==
  { Missing, Entry(Some(<<>>)),
    Entry(Some(<<[f \in PartKeys |-> Missing]>>)) }
  \cup { Entry(Some(<<[f \in PartKeys |->
                        IF f = "iconCode" THEN Entry(Some(<<day, night>>)) ELSE Missing]>>)) :
           day \in IconCodes, night \in NightCodes }

EntityDocuments ==
  {None}
  \cup { Some([observations |-> o, days |-> NoDays, daypart |-> dp]) :
           o \in {Missing, Entry(<<>>)} \cup { Entry(<<ob>>) : ob \in EntityObservations },
           dp \in EntityDayparts }

\* "day or night"
day_or_night(day, night) == IF Falsy(day) THEN night ELSE day

\* BaseWundergroundPWSWeatherEntity._estimate_condition_from_solar_radiation
estimate_condition_from_solar_radiation(coordinator, d, unit_system) ==
  LET r == get_condition(coordinator, d, unit_system, "solarRadiation")
  IN  IF r.exc \in {"TypeError", "KeyError"} THEN Returned(None)
      ELSE IF r.exc /= "none" THEN r
      ELSE IF r.value = None THEN Returned(None)
      ELSE IF r.value[1] > SunnyAbove THEN Returned(Some("sunny"))
      ELSE IF r.value[1] > PartlyCloudyAbove THEN Returned(Some("partlycloudy"))
      ELSE IF r.value[1] > CloudyAbove THEN Returned(Some("cloudy"))
      ELSE Returned(Some("cloudy"))

\* The body of the try block of the condition property.
condition_try(coordinator, d, map, unit_system) ==
  LET day == get_forecast(d, "iconCode", 0)
      night == get_forecast(d, "iconCode", 1)
      cond == iconcode_to_condition(map, day_or_night(day.value, night.value))
  IN  IF day.exc /= "none" THEN day
      ELSE IF night.exc /= "none" THEN night
      ELSE IF cond.exc /= "none" THEN cond
      ELSE IF cond.value /= None THEN cond
      ELSE estimate_condition_from_solar_radiation(coordinator, d, unit_system)

\* BaseWundergroundPWSWeatherEntity.condition
condition(coordinator, d, map, unit_system) ==
  LET r == condition_try(coordinator, d, map, unit_system)
  IN  IF r.exc \in {"TypeError", "KeyError", "IndexError"} THEN Returned(None) ELSE r

\* ------------------------------------------------------ the daily forecast
\* The list with element i (counted from 1) replaced by null.
with_null(list, i) == [list EXCEPT ![i] = None]

\* validTimeUtc of the documents the forecast is built from: missing, null, one
\* time per day, a short list, and lists with a null first or third element.
ValidTimeEntries ==
  ArrayEntries(200, ForecastDays)
  \cup { Entry(Some(with_null(array(200, ForecastDays), i))) : i \in {1, 3} }

\* The per-day arrays: a valid time, and the two temperature maxima.
DailyDays ==
  { [f \in {"validTimeUtc", "temperatureMax", "calendarDayTemperatureMax"} |->
       IF f = "validTimeUtc" THEN t
       ELSE IF f = "temperatureMax" THEN a
       ELSE Entry(Some(array(150, ForecastDays)))] :
      t \in ValidTimeEntries, a \in ArrayOrMissing(100, ForecastDays) }

\* daypart: missing, or one record whose temperature list is missing, full, or
\* null for period 0 (the day part of today is over), with or without qpf.
DailyDayparts ==
  {Missing}
  \cup { Entry(Some(<<[f \in {"temperature", "qpf"} |->
                        IF f = "temperature" THEN a ELSE b]>>)) :
           a \in ArrayOrMissing(300, 2 * ForecastDays)
                  \cup {Entry(Some(with_null(array(300, 2 * ForecastDays), 1)))},
           b \in ArrayOrMissing(500, 2 * ForecastDays) }

DailyDocuments ==
  {None}
  \cup { Some([observations |-> Missing, days |-> ds, daypart |-> dp]) :
           ds \in DailyDays, dp \in DailyDayparts }

\* BaseWundergroundPWSWeatherEntity._get_forecast_temperature_fields
get_forecast_temperature_fields(calendarday) ==
  IF calendarday THEN <<"calendarDayTemperatureMax", "calendarDayTemperatureMin">>
  ELSE <<"temperatureMax", "temperatureMin">>

\* Periods that always start with period 0.
get_forecast_periods_fixed(d) == <<0, 2, 4, 6, 8>>

\* BaseWundergroundPWSWeatherEntity._get_forecast_periods
get_forecast_periods(d) ==
  LET periods == <<0, 2, 4, 6, 8>>
  IN  IF get_forecast(d, "temperature", 0).value = None
      THEN [periods EXCEPT ![1] = periods[1] + 1]
      ELSE periods

\* dt_util.utc_from_timestamp(t).isoformat(): the instant, as text.
utc_isoformat(t) == [utc |-> t]

\* BaseWundergroundPWSWeatherEntity._create_forecast_entry_new_format, with the
\* time, the temperatures and the precipitation of the Forecast it builds.
create_forecast_entry_new_format(d, period, temp_max_field, temp_min_field) ==
  LET forecast_time == get_forecast(d, "validTimeUtc", period).value
  IN  IF forecast_time = None THEN None
      ELSE Some([native_precipitation |-> get_forecast(d, "qpf", period).value,
                 native_temperature |-> get_forecast(d, temp_max_field, period).value,
                 native_templow |-> get_forecast(d, temp_min_field, period).value,
                 datetime |-> utc_isoformat(forecast_time[1])])

\* The entries of a list of optional entries that are there, in order.
RECURSIVE append_entries(_)
append_entries(entries) ==
  IF entries = <<>> THEN <<>>
  ELSE IF entries[1] = None THEN append_entries(Tail(entries))
  ELSE <<entries[1][1]>> \o append_entries(Tail(entries))

\* BaseWundergroundPWSWeatherEntity._forecast_new, which async_forecast_daily returns.
forecast_new(d, calendarday) ==
  LET fields == get_forecast_temperature_fields(calendarday)
      periods == get_forecast_periods(d)
      forecast == append_entries(
                    [i \in DOMAIN periods |->
                       create_forecast_entry_new_format(d, periods[i], fields[1], fields[2])])
  IN  Returned(IF forecast /= <<>> THEN Some(forecast) ELSE None)

\* -------------------------------------------------------------- the calls
ConditionCalls ==
  { [fn |-> "get_condition", unit_system |-> u, field |-> f] :
      u \in UnitSystems, f \in ConditionFields }

ForecastCalls ==
  { [fn |-> "get_forecast", field |-> f, period |-> p] :
      f \in ForecastFields, p \in Periods }

\* forecast_enable is config.forecast_enable, which the coordinator stores.
FetchCalls ==
  { [fn |-> "fetch", current |-> rc, forecast |-> rf, latitude |-> la, longitude |-> lo,
     forecast_enable |-> fe] :
      rc \in CurrentResponses, rf \in ForecastResponses,
      la \in OptCoord, lo \in OptCoord, fe \in BOOLEAN }

\* The Current-conditions payload is marked 1, the Forecast payload 2.
MergeCalls ==
  { [fn |-> "merge", result_current |-> c, result_forecast |-> f] :
      c \in Payloads(1), f \in Payloads(2) }

\* The properties active_station and station_status.
PropertyCalls == { [fn |-> "active_station"], [fn |-> "station_status"] }

IconCalls ==
  { [fn |-> "iconcode_to_condition", icon_condition_map |-> m, icon_code |-> c] :
      m \in IconMaps, c \in IconCodes }

\* The condition property of the weather entity of a coordinator with this map.
EntityConditionCalls ==
  { [fn |-> "condition", icon_condition_map |-> m, unit_system |-> "metric"] :
      m \in IconMaps }

\* async_forecast_daily of the weather entity; calendarday is the option the
\* coordinator stores as _calendarday.
ForecastDailyCalls ==
  { [fn |-> "async_forecast_daily", calendarday |-> c] : c \in BOOLEAN }

UrlCalls ==
  { [fn |-> "build_url", baseurl |-> b, station_id |-> id, config |-> c] :
      b \in {RESOURCECURRENT, RESOURCEFORECAST}, id \in PwsIds, c \in UrlConfigs }

\* A coordinator of either kind for one station, holding the document the call
\* reads (accessors) or the coordinates the call starts from (fetch).
InitCalls ==
  /\ kind \in {"multi", "single"}
  /\ config = <<StationConfig(1, 1)>>
  /\ stations = sorted_by_priority(config)
  /\ last_update_success = TRUE
  /\ setup = "loaded"
  /\ pc = "idle"
  /\ idx = 1
  /\ successful_stations = <<>>
  /\ cycle = 1
  /\ fetched_ok = {}
  /\ attempted = {}
  /\ flow = NoFlow
  /\ result = NotRun
  /\ \/ /\ call \in ConditionCalls
        /\ data \in ConditionDocuments
        /\ latitude = None
        /\ longitude = None
     \/ /\ call \in ForecastCalls
        /\ data \in ForecastDocuments
        /\ latitude = None
        /\ longitude = None
     \/ /\ call \in FetchCalls
        /\ data = None
        /\ latitude = call.latitude
        /\ longitude = call.longitude
     \/ /\ call \in MergeCalls
        /\ data = None
        /\ latitude = None
        /\ longitude = None
     \/ /\ call \in UrlCalls
        /\ data = None
        /\ latitude \in OptCoord
        /\ longitude \in OptCoord
     \/ /\ call \in IconCalls
        /\ data = None
        /\ latitude = None
        /\ longitude = None
     \/ /\ call \in EntityConditionCalls
        /\ data \in EntityDocuments
        /\ latitude = None
        /\ longitude = None
     \/ /\ call \in ForecastDailyCalls
        /\ data \in DailyDocuments
        /\ latitude = None
        /\ longitude = None
     \/ /\ call \in PropertyCalls
        /\ data = None
        /\ latitude = None
        /\ longitude = None
  /\ IF call \in PropertyCalls
     THEN /\ active_station \in {None, Some(stations[1])}
          /\ station_data \in
               { [p \in PwsIds |-> IF p = stations[1].pws_id THEN e ELSE None] :
                   e \in {None, Some([data |-> Document(stations[1].pws_id, cycle),
                                      last_update |-> loop_time])} }
     ELSE /\ active_station = None
          /\ station_data = [p \in PwsIds |-> None]

\* A get_condition that drops the document once it has been read.
GetConditionConsuming ==
  /\ call.fn = "get_condition"
  /\ ~result.done
  /\ result' = get_condition(kind, data, call.unit_system, call.field)
  /\ data' = None
  /\ UNCHANGED <<flow, kind, config, stations, station_data, active_station, latitude,
                 longitude, last_update_success, setup, pc, idx, successful_stations,
                 cycle, fetched_ok, attempted, call>>

GetCondition ==
  /\ call.fn = "get_condition"
  /\ ~result.done
  /\ result' = get_condition(kind, data, call.unit_system, call.field)
  /\ UNCHANGED <<flow, kind, config, stations, station_data, active_station, data, latitude,
                 longitude, last_update_success, setup, pc, idx, successful_stations,
                 cycle, fetched_ok, attempted, call>>

GetForecast ==
  /\ call.fn = "get_forecast"
  /\ ~result.done
  /\ result' = get_forecast(data, call.field, call.period)
  /\ UNCHANGED <<flow, kind, config, stations, station_data, active_station, data, latitude,
                 longitude, last_update_success, setup, pc, idx, successful_stations,
                 cycle, fetched_ok, attempted, call>>

\* "self.data = result" of the single-station get_weather, which a fetch that
\* returns its document has run; _fetch_station_data does not write data.
data_after_fetch(coordinator, out, current) ==
  IF coordinator = "single" /\ out.value /= None THEN out.value ELSE current

\* One fetch up to its second request: the Current-conditions response is
\* checked and the coordinates are learned; a failure ends the fetch here.
FetchCurrent ==
  /\ call.fn = "fetch"
  /\ ~result.done
  /\ pc = "idle"
  /\ LET exc == IF kind = "multi" THEN multi_current_exception(call.current)
                ELSE single_current_exception(call.current)
         learned == learn_coordinates(call.current, latitude, longitude)
         out == fetch(kind, call.current, call.forecast, latitude, longitude,
                      Document(Station.pws_id, cycle))
     IN  IF exc /= "none" \/ learned.exc /= "none"
         THEN /\ result' = out
              /\ latitude' = out.latitude
              /\ longitude' = out.longitude
              /\ pc' = pc
         ELSE /\ result' = result
              /\ latitude' = learned.latitude
              /\ longitude' = learned.longitude
              /\ pc' = "forecast"
  /\ UNCHANGED <<flow, kind, config, stations, station_data, active_station, data,
                 last_update_success, setup, idx, successful_stations,
                 cycle, fetched_ok, attempted, call>>

\* The rest of the fetch: the Forecast response is checked and the merged
\* document returned.
FetchForecast ==
  /\ call.fn = "fetch"
  /\ ~result.done
  /\ pc = "forecast"
  /\ LET fexc == IF kind = "multi" THEN multi_forecast_exception(call.forecast)
                 ELSE single_forecast_exception(call.forecast)
         escaped == IF kind = "multi" THEN fetch_station_data_escapes(fexc)
                    ELSE single_escapes(fexc)
         out == IF fexc /= "none" THEN Fetched(None, escaped, latitude, longitude, TRUE)
                ELSE Fetched(Some(Document(Station.pws_id, cycle)), "none",
                             latitude, longitude, TRUE)
     IN  /\ result' = out
         /\ data' = data_after_fetch(kind, out, data)
  /\ pc' = "idle"
  /\ UNCHANGED <<flow, kind, config, stations, station_data, active_station, latitude,
                 longitude, last_update_success, setup, idx, successful_stations,
                 cycle, fetched_ok, attempted, call>>

\* "result = {**result_current, **result_forecast}", the last step of a fetch
\* that passed every check.
MergeResults ==
  /\ call.fn = "merge"
  /\ ~result.done
  /\ result' = Returned(merge_results(call.result_current, call.result_forecast))
  /\ UNCHANGED <<flow, kind, config, stations, station_data, active_station, data, latitude,
                 longitude, last_update_success, setup, pc, idx, successful_stations,
                 cycle, fetched_ok, attempted, call>>

BuildUrl ==
  /\ call.fn = "build_url"
  /\ ~result.done
  /\ result' = Returned(build_url(call.baseurl, call.station_id, call.config,
                                  latitude, longitude))
  /\ UNCHANGED <<flow, kind, config, stations, station_data, active_station, data, latitude,
                 longitude, last_update_success, setup, pc, idx, successful_stations,
                 cycle, fetched_ok, attempted, call>>

IconcodeToCondition ==
  /\ call.fn = "iconcode_to_condition"
  /\ ~result.done
  /\ result' = iconcode_to_condition(call.icon_condition_map, call.icon_code)
  /\ UNCHANGED <<flow, kind, config, stations, station_data, active_station, data, latitude,
                 longitude, last_update_success, setup, pc, idx, successful_stations,
                 cycle, fetched_ok, attempted, call>>

\* The active_station property, which the multi-station coordinator alone has.
GetActiveStation ==
  /\ call.fn = "active_station"
  /\ ~result.done
  /\ result' = IF kind = "multi" THEN Returned(active_station)
               ELSE Raised("AttributeError")
  /\ UNCHANGED <<flow, kind, config, stations, station_data, active_station, data, latitude,
                 longitude, last_update_success, setup, pc, idx, successful_stations,
                 cycle, fetched_ok, attempted, call>>

\* The station_status property of the multi-station coordinator: one record per
\* station of self._stations.
GetStationStatus ==
  /\ call.fn = "station_status"
  /\ ~result.done
  /\ result' = IF kind = "multi"
               THEN Returned([i \in 1..Len(stations) |-> station_status(stations[i])])
               ELSE Raised("AttributeError")
  /\ UNCHANGED <<flow, kind, config, stations, station_data, active_station, data, latitude,
                 longitude, last_update_success, setup, pc, idx, successful_stations,
                 cycle, fetched_ok, attempted, call>>

EntityCondition ==
  /\ call.fn = "condition"
  /\ ~result.done
  /\ result' = condition(kind, data, call.icon_condition_map, call.unit_system)
  /\ UNCHANGED <<flow, kind, config, stations, station_data, active_station, data, latitude,
                 longitude, last_update_success, setup, pc, idx, successful_stations,
                 cycle, fetched_ok, attempted, call>>

AsyncForecastDaily ==
  /\ call.fn = "async_forecast_daily"
  /\ ~result.done
  /\ result' = forecast_new(data, call.calendarday)
  /\ UNCHANGED <<flow, kind, config, stations, station_data, active_station, data, latitude,
                 longitude, last_update_success, setup, pc, idx, successful_stations,
                 cycle, fetched_ok, attempted, call>>

NextCall ==
  \/ GetCondition
  \/ GetForecast
  \/ FetchCurrent
  \/ FetchForecast
  \/ MergeResults
  \/ BuildUrl
  \/ IconcodeToCondition
  \/ GetActiveStation
  \/ GetStationStatus
  \/ EntityCondition
  \/ AsyncForecastDaily

CallSpec == InitCalls /\ [][NextCall]_vars


\* ---------------------------------------------------------- the config flow
\* The station forms the user may submit before the flow is left alone.
MaxSubmissions == 3

\* What a step of the flow returns: a form (with its errors and the
\* station_count placeholder), the station menu, an abort or the created entry.
ShowForm(step_id, errors, count) ==
  [type |-> "form", step_id |-> step_id, errors |-> errors, reason |-> "none",
   station_count |-> count, stations |-> <<>>, latitude |-> None, longitude |-> None]

ShowMenu ==
  [type |-> "menu", step_id |-> "station_menu", errors |-> "none", reason |-> "none",
   station_count |-> 0, stations |-> <<>>, latitude |-> None, longitude |-> None]

Abort(reason) ==
  [type |-> "abort", step_id |-> "none", errors |-> "none", reason |-> reason,
   station_count |-> 0, stations |-> <<>>, latitude |-> None, longitude |-> None]

CreateEntry(list, la, lo) ==
  [type |-> "create_entry", step_id |-> "none", errors |-> "none", reason |-> "none",
   station_count |-> 0, stations |-> list, latitude |-> la, longitude |-> lo]

NoResult ==
  [type |-> "none", step_id |-> "none", errors |-> "none", reason |-> "none",
   station_count |-> 0, stations |-> <<>>, latitude |-> None, longitude |-> None]

\* The step the flow manager calls next after a result: the form's or the
\* menu's step, none once the flow has ended.
next_step(res) == IF res.type \in {"form", "menu"} THEN res.step_id ELSE "done"

\* MultiStationConfigFlow.__init__; the other variables describe no coordinator
\* yet and stay as they are while the flow runs.
InitFlow ==
  /\ kind = "multi"
  /\ config = <<StationConfig(1, 1)>>
  /\ stations = sorted_by_priority(config)
  /\ station_data = [p \in PwsIds |-> None]
  /\ active_station = None
  /\ data = None
  /\ latitude = None
  /\ longitude = None
  /\ last_update_success = TRUE
  /\ setup = "first_refresh"
  /\ pc = "idle"
  /\ idx = 1
  /\ successful_stations = <<>>
  /\ cycle = 0
  /\ fetched_ok = {}
  /\ attempted = {}
  /\ call = NoCall
  /\ result = NotRun
  /\ flow = [step |-> "init", stations |-> <<>>, latitude |-> None, longitude |-> None,
             submissions |-> 0, pws_id |-> None, result |-> NoResult]

\* A step of the flow changes the flow alone.
FlowOnly ==
  UNCHANGED <<kind, config, stations, station_data, active_station, data, latitude,
              longitude, last_update_success, setup, pc, idx, successful_stations,
              cycle, fetched_ok, attempted, call, result>>

\* A duplicate check that lets every station id through.
station_already_exists_never(list, pws_id) == FALSE

\* "any(station.pws_id == pws_id for station in self._stations)"
station_already_exists(list, pws_id) ==
  \E i \in DOMAIN list : list[i].pws_id = pws_id

\* async_step_add_station(user_input): input None shows the form; a station
\* whose id is in the list shows it again with the error; any other station is
\* appended and the menu is shown.
add_station(f, input) ==
  IF input = None
  THEN [f EXCEPT !.result = ShowForm("add_station", "none", Len(f.stations))]
  ELSE IF station_already_exists(f.stations, input[1].pws_id)
       THEN [f EXCEPT !.result =
               ShowForm("add_station", "station_already_exists", Len(f.stations))]
       ELSE [f EXCEPT !.stations = Append(f.stations, input[1]),
                      !.result = ShowMenu]

\* The flow after a step: the manager's current step follows the result.
stepped(f) == [f EXCEPT !.step = next_step(f.result)]

\* async_step_user without input: the first form.
StepUserForm ==
  /\ flow.step = "init"
  /\ flow' = stepped([flow EXCEPT !.result = ShowForm("user", "none", 0)])
  /\ FlowOnly

\* async_step_user with the form's input: the optional coordinates are stored,
\* a group that is configured already aborts the flow, any other goes on to
\* async_step_add_station().
StepUser ==
  /\ flow.step = "user"
  /\ \E la \in OptCoord, lo \in OptCoord, configured \in BOOLEAN :
       LET f == [flow EXCEPT !.latitude = la, !.longitude = lo]
       IN  flow' = stepped(IF configured
                           THEN [f EXCEPT !.result = Abort("already_configured")]
                           ELSE add_station(f, None))
  /\ FlowOnly

\* async_step_add_station with the form's input.
StepAddStation ==
  /\ flow.step = "add_station"
  /\ flow.submissions < MaxSubmissions
  /\ \E k \in PwsIds, p \in 1..MaxPriority :
       flow' = stepped(add_station([flow EXCEPT !.submissions = @ + 1, !.pws_id = Some(k)],
                                   Some(StationConfig(k, p))))
  /\ FlowOnly

\* async_step_station_menu: shows the menu.
StepStationMenu ==
  /\ flow.step = "init"
  /\ flow' = stepped([flow EXCEPT !.result = ShowMenu])
  /\ FlowOnly

\* async_step_add_another_station, chosen in the menu.
StepAddAnotherStation ==
  /\ flow.step = "station_menu"
  /\ flow' = stepped(add_station(flow, None))
  /\ FlowOnly

\* async_step_finish_setup, chosen in the menu or called as the first step.
StepFinishSetup ==
  /\ flow.step \in {"init", "station_menu"}
  /\ flow' = stepped([flow EXCEPT !.result =
                        IF Len(flow.stations) = 0 THEN Abort("no_stations")
                        ELSE CreateEntry(flow.stations, flow.latitude, flow.longitude)])
  /\ FlowOnly

NextFlow ==
  \/ StepUserForm
  \/ StepUser
  \/ StepAddStation
  \/ StepStationMenu
  \/ StepAddAnotherStation
  \/ StepFinishSetup

FlowSpec == InitFlow /\ [][NextFlow]_vars


\* ================================================================== claims
\* A refresh cycle has finished and the coordinator is idle again.
CycleDone == pc = "idle" /\ cycle > 0
MultiDone == kind = "multi" /\ CycleDone

\* The station of S with the lowest priority value, the earliest configured one
\* among equals (pws_id k is the k-th station of the configuration).
BestOf(S) ==
  CHOOSE k \in S : \A j \in S :
    \/ config[k].priority < config[j].priority
    \/ config[k].priority = config[j].priority /\ k <= j

\* C1: after a cycle in which at least one station succeeded, the active station
\* is the successful station with the lowest priority value, ties broken by
\* configuration order; it is a function of the set of successful stations alone.
C1_SelectsLowestPriority ==
  (MultiDone /\ fetched_ok /= {}) => active_station = Some(config[BestOf(fetched_ok)])

\* C1 witness: two stations succeeded in the cycle, the one configured later has
\* the lower priority value, and it is the active one.
C1_Witness ==
  /\ MultiDone
  /\ \E i, j \in fetched_ok :
       /\ i < j
       /\ config[i].priority > config[j].priority
       /\ active_station = Some(config[j])

\* C2: a cycle in which every fetch fails leaves coordinator.data and the active
\* station as they were before it.
C2_AllFailKeepsData ==
  [][(pc /= "idle" /\ pc' = "idle" /\ fetched_ok' = {})
       => (data' = data /\ active_station' = active_station)]_vars

\* C3: after a cycle in which no fetch succeeded, last_update_success is false.
C3_AllFailReportsFailure ==
  (CycleDone /\ fetched_ok = {}) => last_update_success = FALSE

\* C4: a first refresh in which no source succeeded never ends with the entry
\* loaded (coordinator registered, platforms forwarded).
C4_FirstRefreshFailureNotReady ==
  (pc = "idle" /\ cycle = 1 /\ fetched_ok = {}) => setup /= "loaded"

\* C5: a cycle in which at least one station succeeded reports success and
\* installs the document that cycle fetched for the station it selected,
\* whatever the other stations answered.
C5_PartialFailureSucceeds ==
  (MultiDone /\ fetched_ok /= {}) =>
     /\ last_update_success
     /\ active_station /= None
     /\ data = Some(Document(active_station[1].pws_id, cycle))

\* C5 witness: a station sorted before the active one failed in the cycle.
C5_Witness ==
  /\ MultiDone
  /\ last_update_success
  /\ \E i, j \in 1..Len(stations) :
       /\ i < j
       /\ stations[i].pws_id \notin fetched_ok
       /\ active_station = Some(stations[j])
       /\ data = Some(Document(stations[j].pws_id, cycle))

\* C6: after every cycle a station is reported online exactly when its fetch
\* succeeded in that cycle.
C6_StatusIsLatestCycle ==
  MultiDone =>
    \A k \in 1..Len(stations) :
      station_status(stations[k]).status = "online" <=> stations[k].pws_id \in fetched_ok

\* C7 as claimed: after a finished cycle the active station, when set, succeeded
\* in that cycle.
C7_ActiveSucceededThisCycle ==
  (MultiDone /\ active_station /= None) => active_station[1].pws_id \in fetched_ok

\* C7 as amended: a cycle in which at least one station succeeded makes active a
\* station that succeeded in it, a cycle in which none succeeded leaves the
\* active station as it was, and a document a cycle installs in coordinator.data
\* is the one fetched in that cycle for a station that succeeded in it, never a
\* cached one.
C7_ActiveSucceededWhenAnyDid ==
  [][(kind = "multi" /\ pc /= "idle" /\ pc' = "idle") =>
       /\ fetched_ok' /= {} =>
            (active_station' /= None /\ active_station'[1].pws_id \in fetched_ok')
       /\ fetched_ok' = {} => active_station' = active_station
       /\ (data' /= None /\ data' /= data) =>
            (data'[1].cycle = cycle /\ data'[1].pws_id \in fetched_ok')]_vars

\* C7 witness: a station that succeeded in an earlier cycle and is still cached
\* fails in this one, and another station is made active.
C7_Witness ==
  /\ MultiDone
  /\ \E p \in PwsIds :
       /\ station_data[p] /= None
       /\ station_data[p][1].data.cycle < cycle
       /\ p \notin fetched_ok
       /\ active_station /= None
       /\ active_station[1].pws_id /= p
       /\ active_station[1].pws_id \in fetched_ok
       /\ data = Some(Document(active_station[1].pws_id, cycle))

\* C8: in every state coordinator.data is the document of the active station's
\* most recent successful fetch (the one its cache entry holds); it is unset
\* only while no station has ever succeeded, which is while no station is active.
C8_DataIsActiveDocument ==
  kind = "multi" =>
    /\ (data = None) <=> (active_station = None)
    /\ active_station /= None =>
         /\ station_data[active_station[1].pws_id] /= None
         /\ data = Some(station_data[active_station[1].pws_id][1].data)

\* C9: once latitude and longitude are set, no later step changes either.
C9_CoordinatesFirstWriteWins ==
  [][(latitude /= None /\ longitude /= None)
       => (latitude' = latitude /\ longitude' = longitude)]_vars

\* C11: a reader that runs while a cycle is suspended on a request sees the
\* active station, the active document and the per-station status as they were
\* before the cycle: every step that leaves the coordinator inside a cycle
\* leaves the three unchanged, and the step that ends the cycle writes them
\* together.
C11_MidCycleStateUntouched ==
  [][pc' /= "idle" =>
       /\ active_station' = active_station
       /\ data' = data
       /\ \A i \in 1..Len(stations) :
            station_status(stations[i])' = station_status(stations[i])]_vars

\* A station has already delivered this cycle's document while the next request
\* is outstanding, and the published document is still the previous cycle's.
C11_Witness ==
  /\ kind = "multi"
  /\ pc = "current"
  /\ idx = 2
  /\ fetched_ok /= {}
  /\ data /= None
  /\ data[1].cycle < cycle

\* C12: a finished multi-station cycle has called _fetch_station_data for every
\* configured station, whether or not an earlier station succeeded.
C12_EveryStationAttempted ==
  MultiDone => attempted = {config[i].pws_id : i \in 1..Len(config)}

\* The first station in priority order delivered a document and the second was
\* still asked.
C12_Witness ==
  /\ MultiDone
  /\ Len(stations) = 2
  /\ stations[1].pws_id \in fetched_ok
  /\ stations[2].pws_id \in attempted

\* A call of get_condition has returned or raised.
ConditionDone == call.fn = "get_condition" /\ result.done

\* The field the call asks for is neither at the top level of the first
\* observation nor in its sub-record of the configured unit system.
ConditionFieldMissing ==
  \/ data = None
  \/ ~data[1].observations.key
  \/ data[1].observations.value = <<>>
  \/ LET observation == data[1].observations.value[1]
         sub == unit_entry(observation, call.unit_system)
     IN  /\ call.field \notin DOMAIN observation.top
         /\ (sub.key /\ sub.value /= None => call.field \notin DOMAIN sub.value[1])

\* C13: get_condition returns None, and raises nothing, when the coordinator
\* holds no document or the field is missing, on either coordinator.
C13_GetConditionNeverRaises ==
  ConditionDone /\ ConditionFieldMissing => result = Returned(None)

ForecastDone == call.fn = "get_forecast" /\ result.done

\* The list the call addresses, as an entry: the day array of a full-day field,
\* the field's array in daypart[0] otherwise.
AddressedArray ==
  IF data = None THEN Missing
  ELSE IF call.field \in full_day_fields THEN dict_entry(data[1].days, call.field)
  ELSE IF data[1].daypart.key /\ data[1].daypart.value /= None
          /\ data[1].daypart.value[1] /= <<>>
       THEN dict_entry(data[1].daypart.value[1][1], call.field)
       ELSE Missing

HasArray == AddressedArray.key /\ AddressedArray.value /= None

\* C14: for a full-day field and k in 0..4, periods 2k and 2k+1 both return
\* element k of the field's day array; any other field returns the element at
\* index period of its daypart array.
C14_FullDayFieldsHalvePeriod ==
  ForecastDone /\ HasArray =>
    LET list == AddressedArray.value[1]
    IN  /\ call.field \in full_day_fields =>
             \A k \in 0..(ForecastDays - 1) :
               call.period \in {2 * k, 2 * k + 1} /\ k < Len(list)
                 => result = Returned(list[k + 1])
        /\ call.field \notin full_day_fields =>
             (0 <= call.period /\ call.period < Len(list)
                => result = Returned(list[call.period + 1]))

\* The last night period of the five-day forecast resolved to the fifth day.
C14_Witness ==
  /\ ForecastDone
  /\ call.field = "temperatureMax"
  /\ call.period = 2 * ForecastDays - 1
  /\ HasArray
  /\ Len(AddressedArray.value[1]) = ForecastDays
  /\ result = Returned(AddressedArray.value[1][ForecastDays])

\* The index the call addresses lies outside 0..Len-1 of the addressed list.
PeriodOutOfRange ==
  /\ HasArray
  /\ LET i == IF call.field \in full_day_fields THEN day_index(call.period)
              ELSE call.period
     IN  call.period < 0 \/ i >= Len(AddressedArray.value[1])

\* C15: get_forecast returns None, and raises nothing, for an absent document,
\* a missing key and every period outside the range of the addressed array,
\* negative periods included.
C15_GetForecastAbsentOutOfRange ==
  ForecastDone /\ (data = None \/ ~AddressedArray.key \/ PeriodOutOfRange)
    => result = Returned(None)

\* C16: on a document with an observation, get_condition returns a unit-less
\* field as the observation holds it and every other field as the sub-record
\* of the configured unit system holds it.
C16_ConditionReadsConfiguredUnits ==
  ConditionDone /\ data /= None /\ data[1].observations.key
  /\ data[1].observations.value /= <<>> =>
    LET observation == data[1].observations.value[1]
        sub == unit_entry(observation, call.unit_system)
    IN  IF call.field \in multi_unit_less_fields
        THEN result = Returned(dict_get(observation.top, call.field))
        ELSE IF sub.key /\ sub.value /= None
             THEN result = Returned(dict_get(sub.value[1], call.field))
             ELSE result = Returned(None)

\* One fetch has run to its end.
FetchDone == call.fn = "fetch" /\ result.done

\* The response arrived and carries this HTTP status.
BadStatus(r) == ~r.timeout /\ r.status /= HTTP_OK

\* C17: a fetch returns no document when the Current-conditions response or the
\* Forecast response has a status other than 200, whatever its body, on either
\* coordinator.
C17_BadStatusFailsFetch ==
  FetchDone /\ (BadStatus(call.current) \/ BadStatus(call.forecast))
    => result.value = None

\* The response arrived with a JSON object as its body.
Payload(r) == ~r.timeout /\ r.body = "dict"

\* C18: a fetch whose Current-conditions payload has no observations key or an
\* empty observations list returns no document, on either coordinator and
\* whatever coordinates are known.
C18_NoObservationsFailsFetch ==
  FetchDone /\ Payload(call.current) /\ call.current.obs /= "one"
    => result.value = None

\* Every check other than the errors check passes on both responses, given the
\* coordinates the fetch started with.
OtherwiseGood ==
  /\ Payload(call.current)
  /\ call.current.status = HTTP_OK
  /\ call.current.obs = "one"
  /\ Falsy(call.longitude) => call.current.lon /= None
  /\ Falsy(call.latitude) => call.current.lat /= None
  /\ Payload(call.forecast)
  /\ call.forecast.status = HTTP_OK

\* C19: a fetch returns no document when the Current-conditions payload or the
\* Forecast payload carries a non-empty errors list, for which _check_errors
\* raises its one ValueError; with the errors key absent or its list empty on
\* both payloads the check passes and an otherwise good fetch returns its document.
C19_ErrorsListFailsFetch ==
  FetchDone =>
    /\ \A r \in {call.current, call.forecast} :
         Payload(r) /\ r.errors = "some"
           => result.value = None /\ check_errors(r) = "ValueError"
    /\ OtherwiseGood /\ call.current.errors /= "some" /\ call.forecast.errors /= "some"
         => result.value /= None

\* The observation was good and the forecast payload carried the errors list.
C19_Witness ==
  /\ FetchDone
  /\ OtherwiseGood
  /\ call.current.errors = "empty"
  /\ call.forecast.errors = "some"
  /\ result.value = None

\* The coordinator state one fetch leaves behind had the responses been rc and rf.
FetchWith(rc, rf) ==
  fetch(kind, rc, rf, call.latitude, call.longitude, Document(Station.pws_id, cycle))

\* The Current-conditions request was answered and the Forecast request followed.
ForecastRequested ==
  /\ (IF kind = "multi" THEN multi_current_exception(call.current)
      ELSE single_current_exception(call.current)) = "none"
  /\ learn_coordinates(call.current, call.latitude, call.longitude).exc = "none"

\* C20: a request that times out makes the fetch return no document, and what
\* the fetch leaves behind is what any HTTP error answer to that request would
\* have left behind.
C20_TimeoutEqualsHttpError ==
  FetchDone =>
    /\ call.current.timeout =>
         /\ result.value = None
         /\ \A rc \in CurrentResponses :
              BadStatus(rc) => result = FetchWith(rc, call.forecast)
    /\ ForecastRequested /\ call.forecast.timeout =>
         /\ result.value = None
         /\ \A rf \in ForecastResponses :
              BadStatus(rf) => result = FetchWith(call.current, rf)

\* C21: with forecast fetching disabled a fetch sends no Forecast request, and
\* whether it returns a document is decided by the Current-conditions response
\* alone, whatever a Forecast request would have been answered.
C21_ForecastDisabledSkipsRequest ==
  FetchDone /\ ~call.forecast_enable =>
    /\ ~ForecastRequested
    /\ \A rf \in ForecastResponses :
         (FetchWith(call.current, rf).value = None) <=> (result.value = None)

\* The Forecast response is a 200 with a JSON object, no errors list and a
\* daypart key that is absent or holds an empty list.
ForecastWithoutDaypart ==
  /\ Payload(call.forecast)
  /\ call.forecast.status = HTTP_OK
  /\ call.forecast.errors /= "some"
  /\ call.forecast.daypart \in {"absent", "empty"}

\* The document the accessor reads has no daypart key, or an empty daypart list.
DocumentWithoutDaypart ==
  /\ data /= None
  /\ (~data[1].daypart.key \/ data[1].daypart.value = Some(<<>>))

\* C22: a fetch whose Forecast response lacks the daypart structure, and is
\* good otherwise, returns its document; get_forecast of a daypart field on a
\* document without daypart returns None.
C22_MissingDaypartIsNotFatal ==
  /\ FetchDone /\ OtherwiseGood /\ call.current.errors /= "some" /\ ForecastWithoutDaypart
       => result.value /= None
  /\ ForecastDone /\ DocumentWithoutDaypart /\ call.field \notin full_day_fields
       => result = Returned(None)

\* The multi-station fetch returned a document although the daypart key was absent.
C22_Witness ==
  /\ FetchDone
  /\ kind = "multi"
  /\ ForecastWithoutDaypart
  /\ call.forecast.daypart = "absent"
  /\ result.value /= None

MergeDone == call.fn = "merge" /\ result.done

\* C23: the merged document has every top-level key of the Current-conditions
\* payload and of the Forecast payload, with the Forecast payload's value for
\* a key of both and the Current-conditions payload's value for a key of its own.
C23_MergeForecastWins ==
  MergeDone =>
    /\ DOMAIN result.value = DOMAIN call.result_current \cup DOMAIN call.result_forecast
    /\ \A k \in DOMAIN call.result_forecast : result.value[k] = call.result_forecast[k]
    /\ \A k \in DOMAIN call.result_current \ DOMAIN call.result_forecast :
         result.value[k] = call.result_current[k]

\* Both payloads carried an errors key and each a key of its own.
C23_Witness ==
  /\ MergeDone
  /\ DOMAIN call.result_current = {"observations", "errors"}
  /\ DOMAIN call.result_forecast = {"daypart", "errors"}
  /\ result.value["errors"] = call.result_forecast["errors"]
  /\ result.value["observations"] = call.result_current["observations"]

UrlDone == call.fn = "build_url" /\ result.done

\* The built URL has a parameter of this name / of this name and value.
UrlHas(name) == \E i \in DOMAIN result.value.params : result.value.params[i].name = name
UrlHasValue(name, v) ==
  \E i \in DOMAIN result.value.params :
    result.value.params[i].name = name /\ result.value.params[i].value = v

\* C24: the Current-conditions URL carries stationId, format, apiKey and units,
\* carries numericPrecision exactly when the precision mode is not 'none', and
\* carries no language parameter.
C24_CurrentUrlParameters ==
  UrlDone /\ call.baseurl = RESOURCECURRENT =>
    /\ UrlHasValue("stationId", <<call.station_id>>)
    /\ UrlHasValue("format", <<"json">>)
    /\ UrlHasValue("apiKey", <<call.config.api_key>>)
    /\ UrlHasValue("units", <<call.config.unit_system_api>>)
    /\ UrlHas("numericPrecision") <=> call.config.numeric_precision /= "none"
    /\ ~UrlHas("language")

\* precision 'decimal', units 'm': numericPrecision=decimal and units=m are there.
C24_Witness ==
  /\ UrlDone
  /\ call.baseurl = RESOURCECURRENT
  /\ call.config.numeric_precision = "decimal"
  /\ call.config.unit_system_api = "m"
  /\ UrlHasValue("numericPrecision", <<"decimal">>)
  /\ UrlHasValue("units", <<"m">>)

\* C25: the Forecast URL is the same for every station id and precision mode in
\* the same coordinator state; it carries geocode and language and neither
\* stationId nor numericPrecision.
C25_ForecastUrlIsGeocoded ==
  UrlDone /\ call.baseurl = RESOURCEFORECAST =>
    /\ \A id \in PwsIds, c \in UrlConfigs :
         /\ c.lang = call.config.lang
         /\ c.api_key = call.config.api_key
         /\ c.unit_system_api = call.config.unit_system_api
         => build_url(RESOURCEFORECAST, id, c, latitude, longitude) = result.value
    /\ UrlHasValue("geocode", <<latitude, longitude>>)
    /\ UrlHasValue("language", <<call.config.lang>>)
    /\ ~UrlHas("stationId")
    /\ ~UrlHas("numericPrecision")

\* The Forecast URL was built for the second station with known coordinates.
C25_Witness ==
  /\ UrlDone
  /\ call.baseurl = RESOURCEFORECAST
  /\ call.station_id = 2
  /\ latitude = Some(1)
  /\ longitude = Some(1)
  /\ UrlHasValue("geocode", <<Some(1), Some(1)>>)

IconDone == call.fn = "iconcode_to_condition" /\ result.done

\* C26: _iconcode_to_condition returns None, raising nothing, for the code None
\* and for a code in no icon set, which the code 44 is; for any other code it
\* returns a condition whose icon set holds the code.
C26_IconcodeToCondition ==
  IconDone =>
    LET map == call.icon_condition_map
    IN  /\ icon_matches(map, ICON_NOT_AVAILABLE) = {}
        /\ IF call.icon_code = None \/ icon_matches(map, call.icon_code[1]) = {}
           THEN result = Returned(None)
           ELSE \E i \in icon_matches(map, call.icon_code[1]) :
                  result = Returned(Some(map[i].condition))

\* Code 44 was looked up in a map with two non-empty icon sets.
C26_Witness ==
  /\ IconDone
  /\ call.icon_code = Some(ICON_NOT_AVAILABLE)
  /\ Len(call.icon_condition_map) = 2
  /\ \A i \in DOMAIN call.icon_condition_map : call.icon_condition_map[i].iconcodes /= {}
  /\ result = Returned(None)

\* C27: a freshly constructed multi-station coordinator has no active station
\* and no document, and reports every station in a state that is neither
\* online nor the offline state of a station whose fetch failed.
C27_InitialStationsUnknown ==
  kind = "multi" /\ cycle = 0 /\ pc = "idle" =>
    /\ active_station = None
    /\ data = None
    /\ \A i \in 1..Len(stations) :
         station_status(stations[i]).status \notin {"online", "offline"}

\* The calls that only read the coordinator.
AccessorCall ==
  call.fn \in {"get_condition", "get_forecast", "active_station", "station_status"}

\* C28: a step of get_condition, get_forecast, active_station or station_status
\* leaves the active station, the document, the station cache and the
\* coordinates as they were.
C28_AccessorsOnlyRead ==
  [][AccessorCall =>
       UNCHANGED <<active_station, data, station_data, latitude, longitude>>]_vars

\* get_condition returned a value read from a document that is still there.
C28_Witness ==
  /\ ConditionDone
  /\ result.exc = "none"
  /\ result.value /= None
  /\ data /= None

\* C29: once the config entry is unloaded, no step writes the active station,
\* the document, the station cache or the coordinates.
C29_NoWriteAfterUnload ==
  [][setup = "unloaded" =>
       UNCHANGED <<active_station, data, station_data, latitude, longitude>>]_vars

\* C30: a refresh cycle that has started finishes and the coordinator is idle
\* again, given that every request answers or times out.
C30_CycleTerminates == (pc /= "idle") ~> (pc = "idle")

\* A two-station cycle finished after one station failed and the other succeeded.
C30_Witness ==
  /\ MultiDone
  /\ Len(stations) = 2
  /\ Cardinality(fetched_ok) = 1

\* C31: a fetch that fails leaves the coordinates as they were; only a fetch
\* that returns its document may have learned them from its observation.
C31_FailedFetchLearnsNothing ==
  FetchDone /\ result.value = None =>
    result.latitude = call.latitude /\ result.longitude = call.longitude

\* The Current-conditions response passes every check _fetch_station_data makes
\* on it: it arrived, with status 200, a JSON object as body, a non-empty
\* observations list and no errors list.
CurrentPassedEveryCheck ==
  /\ ~call.current.timeout
  /\ call.current.status = HTTP_OK
  /\ call.current.body = "dict"
  /\ call.current.obs = "one"
  /\ call.current.errors /= "some"

\* The coordinate-learn step is over: each coordinate the fetch started without
\* now holds the value of the observation.
CoordinatesLearned ==
  /\ Falsy(call.longitude) =>
       call.current.lon /= None /\ result.longitude = call.current.lon
  /\ Falsy(call.latitude) =>
       call.current.lat /= None /\ result.latitude = call.current.lat

\* C32: a station's fetch sends the Forecast request only when the
\* Current-conditions response passed every check and the coordinate-learn step
\* is over; a response that fails a check is followed by no Forecast request.
C32_ForecastAfterCurrentAccepted ==
  FetchDone /\ kind = "multi" =>
    /\ result.forecast_requested => CurrentPassedEveryCheck /\ CoordinatesLearned
    /\ ~CurrentPassedEveryCheck => ~result.forecast_requested

C32_Witness ==
  /\ FetchDone /\ kind = "multi"
  /\ result.forecast_requested
  /\ call.latitude = None /\ result.latitude /= None

\* What a refresh of the multi-station coordinator with this one station, and a
\* refresh of the single-station coordinator, leave in coordinator.data and in
\* last_update_success, for the responses and coordinates of the call.
OneStationMulti ==
  LET out == multi_fetch(call.current, call.forecast, call.latitude, call.longitude,
                         Document(Station.pws_id, cycle))
      ret == get_weather_return(append_if_data(<<>>, Station, out.value))
  IN  [data |-> coordinator_data(out.exc, ret, data),
       success |-> coordinator_success(out.exc)]

SingleStation ==
  LET out == single_fetch(call.current, call.forecast, call.latitude, call.longitude,
                          Document(Station.pws_id, cycle))
  IN  [data |-> coordinator_data(out.exc, out.value, data),
       success |-> coordinator_success(out.exc)]

\* C33: for the same upstream responses, the single-station coordinator and the
\* multi-station coordinator configured with that one station expose the same
\* active document and the same success signal after the cycle.
C33_SingleEqualsOneStationMulti ==
  FetchDone => OneStationMulti = SingleStation

\* The condition property has been read.
EntityConditionDone == call.fn = "condition" /\ result.done

\* The icon code the document holds for a period of the first daypart record,
\* None when it holds none.
IconCodeOf(p) ==
  IF data = None \/ ~data[1].daypart.key THEN None
  ELSE IF data[1].daypart.value = None \/ data[1].daypart.value[1] = <<>> THEN None
  ELSE LET e == data[1].daypart.value[1][1]["iconCode"]
       IN  IF ~e.key \/ e.value = None THEN None
           ELSE IF p + 1 \in DOMAIN e.value[1] THEN e.value[1][p + 1] ELSE None

\* The solar-radiation reading of the first observation, None when it has none.
SolarRadiationOf ==
  IF data = None \/ ~data[1].observations.key THEN None
  ELSE IF data[1].observations.value = <<>> THEN None
  ELSE LET top == data[1].observations.value[1].top
       IN  IF "solarRadiation" \in DOMAIN top THEN top["solarRadiation"] ELSE None

\* The condition a solar-radiation reading stands for.
SolarEstimate(v) ==
  IF v[1] > SunnyAbove THEN Some("sunny")
  ELSE IF v[1] > PartlyCloudyAbove THEN Some("partlycloudy")
  ELSE Some("cloudy")

\* The condition the map gives for an icon code.
Mapped(code) == iconcode_to_condition(call.icon_condition_map, code).value

\* C34: reading the condition never raises; with every icon code of periods 0
\* and 1 either absent or mapped, the condition is the one mapped from the code
\* of period 0, else of period 1, else the estimate of the observation's
\* solar-radiation reading, else None.
C34_EntityCondition ==
  EntityConditionDone =>
    /\ result.exc = "none"
    /\ (\A p \in {0, 1} : IconCodeOf(p) /= None => Mapped(IconCodeOf(p)) /= None) =>
         result.value =
           IF IconCodeOf(0) /= None THEN Mapped(IconCodeOf(0))
           ELSE IF IconCodeOf(1) /= None THEN Mapped(IconCodeOf(1))
           ELSE IF SolarRadiationOf /= None THEN SolarEstimate(SolarRadiationOf)
           ELSE None

\* async_forecast_daily has returned.
ForecastDailyDone == call.fn = "async_forecast_daily" /\ result.done

\* Element i (counted from 0) of the list under a key of a dict, None when the
\* key, the list or the element is not there.
ElementOf(dict, key, i) ==
  IF key \notin DOMAIN dict THEN None
  ELSE IF ~dict[key].key \/ dict[key].value = None THEN None
  ELSE IF i + 1 \in DOMAIN dict[key].value[1] THEN dict[key].value[1][i + 1] ELSE None

\* What the document holds for a period: a per-day value, a daypart value.
DayValue(field, p) ==
  IF data = None THEN None ELSE ElementOf(data[1].days, field, p \div 2)

PartValue(field, p) ==
  IF data = None \/ ~data[1].daypart.key THEN None
  ELSE IF data[1].daypart.value = None \/ data[1].daypart.value[1] = <<>> THEN None
  ELSE ElementOf(data[1].daypart.value[1][1], field, p)

\* The periods of the daily forecast for the document at hand.
DailyPeriods ==
  <<IF PartValue("temperature", 0) = None THEN 1 ELSE 0, 2, 4, 6, 8>>

\* The positions of DailyPeriods whose period has a valid time, and how many
\* of them lie at or before position i.
Timed == { i \in DOMAIN DailyPeriods : DayValue("validTimeUtc", DailyPeriods[i]) /= None }
TimedUpTo(i) == Cardinality({ j \in Timed : j <= i })

\* C35: async_forecast_daily returns None when no period of 0 (1 when the
\* daypart temperature of period 0 is absent), 2, 4, 6, 8 has a valid time;
\* otherwise a list of at most five entries, one per period with a valid time
\* and in the order of the periods, each built from its period's values.
C35_DailyForecast ==
  ForecastDailyDone =>
    /\ result.exc = "none"
    /\ result.value = None <=> Timed = {}
    /\ result.value /= None =>
         /\ Len(result.value[1]) = Cardinality(Timed)
         /\ Len(result.value[1]) <= ForecastDays
         /\ \A i \in Timed :
              LET e == result.value[1][TimedUpTo(i)]
                  p == DailyPeriods[i]
              IN  /\ e.datetime = utc_isoformat(DayValue("validTimeUtc", p)[1])
                  /\ e.native_precipitation = PartValue("qpf", p)
                  /\ e.native_temperature =
                       DayValue(IF call.calendarday THEN "calendarDayTemperatureMax"
                                ELSE "temperatureMax", p)

\* The day part of today is over, today still has a valid time, and the list
\* starts with the entry of period 1; a later day without a valid time is left out.
C35_Witness ==
  /\ ForecastDailyDone
  /\ PartValue("temperature", 0) = None
  /\ PartValue("qpf", 1) /= None
  /\ 1 \in Timed /\ 3 \notin Timed
  /\ result.value /= None
  /\ Len(result.value[1]) = 4
  /\ result.value[1][1].native_precipitation = PartValue("qpf", 1)

\* No period has a valid time and the call returned None, not an empty list.
C35_WitnessNone ==
  /\ ForecastDailyDone
  /\ data /= None
  /\ Timed = {}
  /\ result.value = None

\* C36: after a fetch whose observation carries both coordinates, the
\* coordinator's latitude and longitude are the pair it was configured with or
\* the pair of that observation, never one of each.
C36_CoordinatesAreOnePair ==
  FetchDone /\ call.current.obs = "one"
    /\ call.current.lat /= None /\ call.current.lon /= None =>
      \/ <<latitude, longitude>> = <<call.latitude, call.longitude>>
      \/ <<latitude, longitude>> = <<call.current.lat, call.current.lon>>

\* C37: after a cycle in which at least one station succeeded, coordinator.data
\* is the document the cache holds for the active station, and the cache holds,
\* for every station that succeeded, the document fetched for it in this cycle.
C37_DataIsCachedActiveDocument ==
  MultiDone /\ fetched_ok /= {} =>
    /\ active_station /= None
    /\ station_data[active_station[1].pws_id] /= None
    /\ data = Some(station_data[active_station[1].pws_id][1].data)
    /\ \A p \in fetched_ok :
         /\ station_data[p] /= None
         /\ station_data[p][1].data = Document(p, cycle)

\* Two stations succeeded in the second cycle: both cache entries hold that
\* cycle's documents and data is the active station's.
C37_Witness ==
  /\ MultiDone
  /\ cycle = 2
  /\ Cardinality(fetched_ok) = 2
  /\ \A p \in fetched_ok : station_data[p] = Some([data |-> Document(p, 2), last_update |-> 2])
  /\ data = Some(Document(active_station[1].pws_id, 2))

\* C38: a step changes the cache entry of a station only at the end of a cycle
\* in which that station's own fetch succeeded, and the last_update it writes is
\* not earlier than the one the entry held.
C38_LastUpdateMonotone ==
  [][\A p \in PwsIds :
       station_data'[p] /= station_data[p] =>
         /\ p \in fetched_ok'
         /\ station_data'[p] /= None
         /\ station_data[p] /= None =>
              station_data'[p][1].last_update >= station_data[p][1].last_update]_vars

\* The second cycle is over: one station succeeded in it and carries its time,
\* another failed in it and keeps the time of the first cycle.
C38_Witness ==
  /\ MultiDone
  /\ cycle = 2
  /\ \E p \in fetched_ok : station_data[p][1].last_update = 2
  /\ \E p \in attempted \ fetched_ok :
       station_data[p] /= None /\ station_data[p][1].last_update = 1

\* The entries of station_status that are marked active.
ActiveEntries == { i \in 1..Len(stations) : station_status(stations[i]).active }

\* C39: station_status has one entry for every configured station, keyed by
\* distinct station ids; at most one entry is marked active, an entry is marked
\* active exactly when its station is active_station, and none is while
\* active_station is None.
C39_StationStatusMatchesActive ==
  kind = "multi" =>
    /\ Len(stations) = Len(config)
    /\ \A i, j \in 1..Len(stations) : stations[i].pws_id = stations[j].pws_id => i = j
    /\ \A c \in 1..Len(config) : \E i \in 1..Len(stations) : stations[i] = config[c]
    /\ Cardinality(ActiveEntries) <= 1
    /\ \A i \in 1..Len(stations) : i \in ActiveEntries <=> active_station = Some(stations[i])
    /\ active_station = None => ActiveEntries = {}

\* Two stations, both with a cache entry, and exactly the active one is marked.
C39_Witness ==
  /\ MultiDone
  /\ Len(stations) = 2
  /\ \A i \in 1..2 : station_data[stations[i].pws_id] /= None
  /\ active_station /= None
  /\ Cardinality(ActiveEntries) = 1

\* A station form has just been submitted in this step.
Submitted == flow'.submissions = flow.submissions + 1

\* C40: the station ids collected by the flow are pairwise distinct: a submitted
\* station whose id is in the list leaves the list as it is and shows the form
\* again with the error station_already_exists, any other is appended; the flow
\* creates an entry only from a list of at least one station and aborts with
\* no_stations when it is finished with an empty list.
C40_FlowKeepsStationsDistinct ==
  /\ [](/\ \A i, j \in DOMAIN flow.stations :
             flow.stations[i].pws_id = flow.stations[j].pws_id => i = j
        /\ flow.result.type = "create_entry" =>
             flow.result.stations = flow.stations /\ Len(flow.stations) >= 1
        /\ flow.result.errors = "station_already_exists" =>
             flow.result.type = "form" /\ flow.result.step_id = "add_station")
  /\ [][/\ Submitted =>
             IF \E i \in DOMAIN flow.stations : flow.stations[i].pws_id = flow'.pws_id[1]
             THEN /\ flow'.stations = flow.stations
                  /\ flow'.result.errors = "station_already_exists"
             ELSE /\ Len(flow'.stations) = Len(flow.stations) + 1
                  /\ flow'.stations[Len(flow'.stations)].pws_id = flow'.pws_id[1]
                  /\ flow'.result.type = "menu"
        /\ flow.step /= "done" /\ flow'.step = "done"
             /\ flow'.result.reason /= "already_configured" =>
             IF flow.stations = <<>>
             THEN flow'.result.type = "abort" /\ flow'.result.reason = "no_stations"
             ELSE flow'.result.type = "create_entry"]_vars

\* A station was added, then the same id was submitted again: the form shows
\* the error and the list still holds the one station.
C40_Witness ==
  /\ flow.step = "add_station"
  /\ flow.submissions = 2
  /\ flow.result.errors = "station_already_exists"
  /\ Len(flow.stations) = 1
  /\ flow.stations[1].pws_id = flow.pws_id[1]

\* The flow was finished without a station and aborted.
C40_WitnessNoStations ==
  /\ flow.step = "done"
  /\ flow.stations = <<>>
  /\ flow.result.type = "abort" /\ flow.result.reason = "no_stations"

====
